---- MODULE Spec2Model ----
(***************************************************************************)
(* Model of the key-value store abstraction (kvdb) and of its in-memory    *)
(* engine (kvdb-memorydb).                                                 *)
(*                                                                         *)
(*   Spec      one caller; every trait method is one atomic action.        *)
(*   SpecConc  several threads; every method is split at the points where  *)
(*             the RwLock is acquired and released.                        *)
(*   SpecTwice one caller that writes a transaction and writes it again,   *)
(*             on a store of one column with any content.                  *)
(*   SpecLive  the threads of SpecConc on a smaller set of arguments, with *)
(*             writers of two columns, under a fairly granted lock.        *)
(***************************************************************************)
EXTENDS Integers, Sequences, FiniteSets, TLC

\* ------------------------------------------------------------------ bounds

\* create(num_cols) is called with num_cols in 0..MaxCols; column ids
\* 0..MaxCols are used as arguments, so id MaxCols is never declared.
MaxCols == 2
\* Number of DBOps in the transactions built in one run.
MaxOps == 2
\* Number of iterators created in one run of SpecConc.
MaxIters == 1

\* The keys of tests::iter_from_prefix: "0", "a" and "ab".
Keys == {<<48>>, <<97>>, <<97, 98>>}
\* The prefixes of that test: "", "0", "a", "ab" and "abc". The same byte
\* strings are the keys looked up by get.
Prefixes == {<<>>, <<48>>, <<97>>, <<97, 98>>, <<97, 98, 99>>}
\* The (opaque) values.
Value == {1, 2}
\* The locations restore is called with: "" and "/".
Paths == {<<>>, <<47>>}

\* ------------------------------------------------------------------- data

Min(a, b) == IF a < b THEN a ELSE b

ColIds == 0..MaxCols

\* Option<T>: None is the empty sequence, Some(v) the one-element sequence.
None == <<>>
Some(v) == <<v>>

\* DBOp::Insert { col, key, value } and DBOp::Delete { col, key }.
Insert(c, k, v) == [kind |-> "Insert", col |-> c, key |-> k, value |-> v]
Delete(c, k) == [kind |-> "Delete", col |-> c, key |-> k, value |-> 0]

DBOp == {Insert(c, k, v) : c \in ColIds, k \in Keys, v \in Value}
          \cup {Delete(c, k) : c \in ColIds, k \in Keys}

\* DBTransaction: the ops vector, of at most n operations.
DBTransaction(n) == UNION {[1..l -> DBOp] : l \in 0..n}

\* DBTransaction::new, put, put_vec and delete: the builder pushes each
\* operation at the end of ops.
new == <<>>
put(ops, col, key, value) == Append(ops, Insert(col, key, value))
put_vec(ops, col, key, value) == Append(ops, Insert(col, key, value))
delete(ops, col, key) == Append(ops, Delete(col, key))

\* <[u8] as Ord>::lt : lexicographic order of byte strings.
KeyLess(a, b) ==
    \E i \in 1..(Min(Len(a), Len(b)) + 1) :
        /\ \A j \in 1..(i - 1) : a[j] = b[j]
        /\ \/ i > Len(a) /\ i <= Len(b)
           \/ i <= Len(a) /\ i <= Len(b) /\ a[i] < b[i]

\* <[u8]>::starts_with
StartsWith(k, prefix) ==
    /\ Len(prefix) <= Len(k)
    /\ \A j \in 1..Len(prefix) : k[j] = prefix[j]

\* A BTreeMap<Vec<u8>, DBValue> is the sequence of its (key, value) pairs in
\* iteration order.
EmptyMap == <<>>

MapKeys(m) == {m[i][1] : i \in 1..Len(m)}

\* BTreeMap::get(key).cloned()
MapGet(m, k) ==
    IF \E i \in 1..Len(m) : m[i][1] = k
    THEN Some(m[CHOOSE i \in 1..Len(m) : m[i][1] = k][2])
    ELSE None

\* Mutant of MapInsert: a present key keeps its old value.
MapInsertKeepsOld(m, k, v) ==
    IF \E i \in 1..Len(m) : m[i][1] = k
    THEN m
    ELSE LET n == Cardinality({i \in 1..Len(m) : KeyLess(m[i][1], k)})
         IN  SubSeq(m, 1, n) \o <<<<k, v>>>> \o SubSeq(m, n + 1, Len(m))

\* Mutant of MapInsert: a new key is placed last, whatever its order.
MapInsertAppends(m, k, v) ==
    IF \E i \in 1..Len(m) : m[i][1] = k
    THEN [m EXCEPT ![CHOOSE i \in 1..Len(m) : m[i][1] = k] = <<k, v>>]
    ELSE Append(m, <<k, v>>)

\* Mutant of MapInsert: a sorted vector without the test for a present key; the
\* pair is placed after every smaller key.
MapInsertDuplicates(m, k, v) ==
    LET n == Cardinality({i \in 1..Len(m) : KeyLess(m[i][1], k)})
    IN  SubSeq(m, 1, n) \o <<<<k, v>>>> \o SubSeq(m, n + 1, Len(m))

\* BTreeMap::insert(key, value): replaces the value of a present key, else
\* places the pair after every smaller key.
MapInsert(m, k, v) ==
    IF \E i \in 1..Len(m) : m[i][1] = k
    THEN [m EXCEPT ![CHOOSE i \in 1..Len(m) : m[i][1] = k] = <<k, v>>]
    ELSE LET n == Cardinality({i \in 1..Len(m) : KeyLess(m[i][1], k)})
         IN  SubSeq(m, 1, n) \o <<<<k, v>>>> \o SubSeq(m, n + 1, Len(m))

\* BTreeMap::remove(key)
MapRemove(m, k) == SelectSeq(m, LAMBDA e : e[1] # k)

\* ----------------------------------------------------- the in-memory engine

VARIABLES
    columns,    \* InMemory.columns: HashMap<u32, BTreeMap<Vec<u8>, DBValue>>
    num_cols,   \* the argument create was called with
    nops,       \* number of DBOps submitted so far
    pc,         \* Spec: "idle", or "done" while the caller holds a result
    call,       \* Spec: the call that produced the result
    ret,        \* Spec: the result of that call
    lastWrite,  \* Spec, history: per declared column and key, the last DBOp
                \* submitted for it
    lock,       \* SpecConc: the RwLock around columns
    tpc,        \* SpecConc: per thread "idle", "wait" (blocked on the lock),
                \* "locked" (holding it) or "done" (holding the result)
    targ,       \* SpecConc: per thread, the call it is in
    ti,         \* SpecConc: per thread, the position of write_buffered's loop
    tret,       \* SpecConc: per thread, the result of the call
    it,         \* SpecConc: per thread, the iterator it holds
    niters,     \* SpecConc: number of iterators created so far
    serial      \* SpecConc, history: the transactions applied one after the
                \* other, in the order their writers got the lock

seqVars == <<pc, call, ret, lastWrite>>
concVars == <<lock, tpc, targ, ti, tret, it, niters, serial>>
vars == <<columns, num_cols, nops, seqVars, concVars>>

\* create(num_cols): one empty BTreeMap per index in 0..num_cols.
create(n) == [idx \in 0..(n - 1) |-> EmptyMap]

\* io::Result / Option results, in one shape: ok is FALSE for Err, val is the
\* Option returned, items the pairs an iterator yields.
Ok(v) == [ok |-> TRUE, val |-> v, items |-> <<>>]
Err == [ok |-> FALSE, val |-> None, items |-> <<>>]
Items(s) == [ok |-> TRUE, val |-> None, items |-> s]

\* Mutant of get: an unknown column reads as an absent key.
getUnknownIsNone(cols, col, key) ==
    IF col \notin DOMAIN cols
    THEN Ok(None)
    ELSE Ok(MapGet(cols[col], key))

\* InMemory::get
get(cols, col, key) ==
    IF col \notin DOMAIN cols
    THEN Err
    ELSE Ok(MapGet(cols[col], key))

\* Mutant of FindPrefix: the last matching pair instead of the first.
FindPrefixLast(m, prefix) ==
    LET hits == {i \in 1..Len(m) : StartsWith(m[i][1], prefix)}
    IN  IF hits = {} THEN None
        ELSE Some(m[CHOOSE i \in hits : \A j \in hits : i >= j][2])

\* Iterator::find over map.iter(): the first pair, in iteration order, whose
\* key starts with the prefix.
FindPrefix(m, prefix) ==
    LET hits == {i \in 1..Len(m) : StartsWith(m[i][1], prefix)}
    IN  IF hits = {} THEN None
        ELSE Some(m[CHOOSE i \in hits : \A j \in hits : i <= j][2])

\* InMemory::get_by_prefix
get_by_prefix(cols, col, prefix) ==
    IF col \notin DOMAIN cols
    THEN Ok(None)
    ELSE Ok(FindPrefix(cols[col], prefix))

\* Mutant of ApplyOp: the Delete arm removes nothing.
ApplyOpDeleteKeeps(cols, op) ==
    IF op.col \notin DOMAIN cols
    THEN cols
    ELSE IF op.kind = "Insert"
         THEN [cols EXCEPT ![op.col] = MapInsert(@, op.key, op.value)]
         ELSE cols

\* Mutant of ApplyOp: an Insert into an unknown column creates the column
\* (columns.entry(col).or_default()).
ApplyOpCreatesColumn(cols, op) ==
    IF op.kind = "Insert"
    THEN IF op.col \in DOMAIN cols
         THEN [cols EXCEPT ![op.col] = MapInsert(@, op.key, op.value)]
         ELSE [c \in DOMAIN cols \cup {op.col} |->
                 IF c = op.col THEN MapInsert(EmptyMap, op.key, op.value)
                 ELSE cols[c]]
    ELSE IF op.col \in DOMAIN cols
         THEN [cols EXCEPT ![op.col] = MapRemove(@, op.key)]
         ELSE cols

\* Mutant of ApplyOp: one keyspace shared by the columns; an operation on a
\* declared column is applied to every column.
ApplyOpSharedKeyspace(cols, op) ==
    IF op.col \notin DOMAIN cols
    THEN cols
    ELSE [c \in DOMAIN cols |->
             IF op.kind = "Insert"
             THEN MapInsert(cols[c], op.key, op.value)
             ELSE MapRemove(cols[c], op.key)]

\* Mutant of ApplyOp: a Delete that empties a column's map removes the column.
ApplyOpDropsEmptyColumn(cols, op) ==
    IF op.col \notin DOMAIN cols
    THEN cols
    ELSE IF op.kind = "Insert"
         THEN [cols EXCEPT ![op.col] = MapInsert(@, op.key, op.value)]
         ELSE IF MapRemove(cols[op.col], op.key) = EmptyMap
              THEN [c \in DOMAIN cols \ {op.col} |-> cols[c]]
              ELSE [cols EXCEPT ![op.col] = MapRemove(@, op.key)]

\* One arm of the match in write_buffered's loop.
ApplyOp(cols, op) ==
    IF op.col \notin DOMAIN cols
    THEN cols
    ELSE IF op.kind = "Insert"
         THEN [cols EXCEPT ![op.col] = MapInsert(@, op.key, op.value)]
         ELSE [cols EXCEPT ![op.col] = MapRemove(@, op.key)]

\* Mutant of write_buffered: the operations are taken from the end of ops
\* (ops.pop()), last to first.
RECURSIVE write_bufferedFromEnd(_, _)
write_bufferedFromEnd(cols, ops) ==
    IF ops = <<>>
    THEN cols
    ELSE write_bufferedFromEnd(ApplyOp(cols, ops[Len(ops)]),
                               SubSeq(ops, 1, Len(ops) - 1))

\* InMemory::write_buffered: the loop over transaction.ops, first to last.
RECURSIVE write_buffered(_, _)
write_buffered(cols, ops) ==
    IF ops = <<>>
    THEN cols
    ELSE write_buffered(ApplyOp(cols, Head(ops)), Tail(ops))

\* InMemory::flush
flush(cols) == Ok(None)

\* InMemory::iter: the pairs of a copy of the column's map.
iter(cols, col) ==
    IF col \in DOMAIN cols
    THEN cols[col]
    ELSE <<>>

\* Mutant of iter_from_prefix: seeks to the first key not below the prefix
\* and yields everything from there on.
iter_from_prefixSeeks(cols, col, prefix) ==
    IF col \in DOMAIN cols
    THEN SelectSeq(cols[col], LAMBDA e : ~KeyLess(e[1], prefix))
    ELSE <<>>

\* Mutant of iter_from_prefix: an unknown column reads as column 0.
iter_from_prefixDefaultColumn(cols, col, prefix) ==
    IF col \in DOMAIN cols
    THEN SelectSeq(cols[col], LAMBDA e : StartsWith(e[1], prefix))
    ELSE IF 0 \in DOMAIN cols
         THEN SelectSeq(cols[0], LAMBDA e : StartsWith(e[1], prefix))
         ELSE <<>>

\* InMemory::iter_from_prefix: the same copy, filtered by starts_with.
iter_from_prefix(cols, col, prefix) ==
    IF col \in DOMAIN cols
    THEN SelectSeq(cols[col], LAMBDA e : StartsWith(e[1], prefix))
    ELSE <<>>

\* Mutant of restore: the empty location is accepted.
restoreAcceptsEmpty(cols, new_db) == IF new_db = <<>> THEN Ok(None) ELSE Err

\* InMemory::restore
restore(cols, new_db) == Err

\* --------------------------------------------------------------- history

\* kind and value of the last DBOp submitted for a (column, key); inserted
\* tells whether an Insert for it had been submitted before that one.
NoWrite == [kind |-> "None", value |-> 0, inserted |-> FALSE]

\* The entry of (c, k) after ops have been submitted, prev being the entry
\* before: decided by the operation of ops with the greatest index.
LastOn(prev, ops, c, k) ==
    LET at == {i \in 1..Len(ops) : ops[i].col = c /\ ops[i].key = k}
    IN  IF at = {} THEN prev
        ELSE LET i == CHOOSE x \in at : \A y \in at : y <= x
             IN  [kind |-> ops[i].kind, value |-> ops[i].value,
                  inserted |-> \/ prev.kind = "Insert"
                               \/ prev.inserted
                               \/ \E j \in at : j < i /\ ops[j].kind = "Insert"]

Record(lw, ops) ==
    [c \in DOMAIN lw |-> [k \in Keys |-> LastOn(lw[c][k], ops, c, k)]]

\* ------------------------------------------------------ SpecConc: data

\* The threads sharing the store.
Threads == {1, 2}

\* Keys, prefixes and column ids the threads use: "a" and "ab"; "" and "ab";
\* the declared column 0 and the undeclared column MaxCols. The threads write
\* to column 0.
ConcKeys == {<<97>>, <<97, 98>>}
ConcPrefixes == {<<>>, <<97, 98>>}
ConcColIds == {0, MaxCols}
ConcOp == {o \in DBOp : o.key \in ConcKeys /\ o.col = 0}
ConcTransaction(n) == UNION {[1..l -> ConcOp] : l \in 0..n}

\* parking_lot::RwLock: at most one writer, or any number of readers.
Unlocked == [writer |-> 0, readers |-> {}]

\* Mutant of CanRead: a reader gets in whoever holds the lock.
CanReadAlways(l) == TRUE

\* RwLock::read is granted while no writer holds the lock.
CanRead(l) == l.writer = 0

\* Mutant of CanWrite: a writer excludes writers only, as a lock that readers
\* do not take would.
CanWriteDespiteReaders(l) == l.writer = 0

\* RwLock::write is granted while nobody holds the lock.
CanWrite(l) == l.writer = 0 /\ l.readers = {}

\* The iterator a thread holds: the cloned map it owns, the prefix its filter
\* tests, the number of pairs of the map consumed, the pairs yielded (out) and,
\* as history, the pairs of the column that start with the prefix at the call.
NoIter ==
    [live |-> FALSE, col |-> 0, prefix |-> <<>>, map |-> <<>>, pos |-> 0,
     out |-> <<>>, atCall |-> <<>>]

\* Mutant of IterSource: the iterator reads the column's map as it is now.
IterSourceLive(cols, i) == IF i.col \in DOMAIN cols THEN cols[i.col] ELSE <<>>

\* map.clone().into_iter(): the iterator reads the map it owns.
IterSource(cols, i) == i.map

\* ------------------------------------------------------ Spec: one caller

\* A call: the method, its arguments, and whether it writes the transaction
\* of the caller's previous call once more.
NoCall == [op |-> "none", col |-> 0, key |-> <<>>, tx |-> <<>>, again |-> FALSE]
Call(o, c, k, t) == [op |-> o, col |-> c, key |-> k, tx |-> t, again |-> FALSE]

Init ==
    /\ num_cols \in 0..MaxCols
    /\ columns = create(num_cols)
    /\ pc = "idle"
    /\ call = NoCall
    /\ ret = Ok(None)
    /\ nops = 0
    /\ lastWrite = [c \in 0..(num_cols - 1) |-> [k \in Keys |-> NoWrite]]
    /\ lock = Unlocked
    /\ tpc = [t \in Threads |-> "idle"]
    /\ targ = [t \in Threads |-> NoCall]
    /\ ti = [t \in Threads |-> 0]
    /\ tret = [t \in Threads |-> Ok(None)]
    /\ it = [t \in Threads |-> NoIter]
    /\ niters = 0
    /\ serial = columns

Returns(c, r) ==
    /\ pc = "idle"
    /\ pc' = "done"
    /\ call' = c
    /\ ret' = r

Get(col, key) ==
    /\ Returns(Call("get", col, key, <<>>), get(columns, col, key))
    /\ UNCHANGED <<columns, num_cols, nops, lastWrite, concVars>>

GetByPrefix(col, prefix) ==
    /\ Returns(Call("get_by_prefix", col, prefix, <<>>),
               get_by_prefix(columns, col, prefix))
    /\ UNCHANGED <<columns, num_cols, nops, lastWrite, concVars>>

WriteBuffered(transaction) ==
    /\ nops + Len(transaction) <= MaxOps
    /\ Returns(Call("write_buffered", 0, <<>>, transaction), Ok(None))
    /\ columns' = write_buffered(columns, transaction)
    /\ nops' = nops + Len(transaction)
    /\ lastWrite' = Record(lastWrite, transaction)
    /\ UNCHANGED <<num_cols, concVars>>

\* Mutant of Write: the transaction is dropped, flush alone is called.
WriteOnlyFlushes(transaction) ==
    /\ nops + Len(transaction) <= MaxOps
    /\ Returns(Call("write", 0, <<>>, transaction), flush(columns))
    /\ nops' = nops + Len(transaction)
    /\ lastWrite' = Record(lastWrite, transaction)
    /\ UNCHANGED <<columns, num_cols, concVars>>

\* KeyValueDB::write: write_buffered, then the result of flush.
Write(transaction) ==
    /\ nops + Len(transaction) <= MaxOps
    /\ LET after == write_buffered(columns, transaction)
       IN  /\ Returns(Call("write", 0, <<>>, transaction), flush(after))
           /\ columns' = after
    /\ nops' = nops + Len(transaction)
    /\ lastWrite' = Record(lastWrite, transaction)
    /\ UNCHANGED <<num_cols, concVars>>

Flush ==
    /\ Returns(Call("flush", 0, <<>>, <<>>), flush(columns))
    /\ UNCHANGED <<columns, num_cols, nops, lastWrite, concVars>>

\* iter(col) collected by the caller.
Iter(col) ==
    /\ Returns(Call("iter", col, <<>>, <<>>), Items(iter(columns, col)))
    /\ UNCHANGED <<columns, num_cols, nops, lastWrite, concVars>>

IterFromPrefix(col, prefix) ==
    /\ Returns(Call("iter_from_prefix", col, prefix, <<>>),
               Items(iter_from_prefix(columns, col, prefix)))
    /\ UNCHANGED <<columns, num_cols, nops, lastWrite, concVars>>

Restore(new_db) ==
    /\ Returns(Call("restore", 0, new_db, <<>>), restore(columns, new_db))
    /\ UNCHANGED <<columns, num_cols, nops, lastWrite, concVars>>

\* The caller drops the result and is ready for its next call.
Drop ==
    /\ pc = "done"
    /\ pc' = "idle"
    /\ call' = NoCall
    /\ ret' = Ok(None)
    /\ UNCHANGED <<columns, num_cols, nops, lastWrite, concVars>>

Next ==
    \/ \E col \in ColIds, key \in Prefixes : Get(col, key)
    \/ \E col \in ColIds, prefix \in Prefixes : GetByPrefix(col, prefix)
    \/ \E transaction \in DBTransaction(MaxOps - nops) :
           WriteBuffered(transaction)
    \/ \E transaction \in DBTransaction(MaxOps - nops) :
           Write(transaction)
    \/ Flush
    \/ \E col \in ColIds : Iter(col)
    \/ \E col \in ColIds, prefix \in Prefixes : IterFromPrefix(col, prefix)
    \/ \E new_db \in Paths : Restore(new_db)
    \/ Drop

Spec == Init /\ [][Next]_vars

\* ------------------------------------------------------- claims under Spec

\* What the claims say of a store, stated without the engine's operators.

Declared(c) == c \in 0..(num_cols - 1)

\* Lexicographic byte order.
RECURSIVE Lex(_, _)
Lex(a, b) ==
    IF b = <<>> THEN FALSE
    ELSE IF a = <<>> THEN TRUE
    ELSE IF Head(a) # Head(b) THEN Head(a) < Head(b)
    ELSE Lex(Tail(a), Tail(b))

IsPrefixOf(p, k) == Len(p) <= Len(k) /\ SubSeq(k, 1, Len(p)) = p

Ascending(items) ==
    \A i \in 1..(Len(items) - 1) : Lex(items[i][1], items[i + 1][1])

\* The pairs column c holds according to the operations submitted.
Written(c) ==
    {<<k, lastWrite[c][k].value>> : k \in {x \in Keys : lastWrite[c][x].kind = "Insert"}}

WrittenWithPrefix(c, p) == {e \in Written(c) : IsPrefixOf(p, e[1])}

Range(items) == {items[i] : i \in 1..Len(items)}

Returned(o) == pc = "done" /\ call.op = o

\* C1: once an Insert(c, k, v) is the last operation submitted for (c, k) of a
\* declared column, by write_buffered and with no flush required, get(c, k)
\* returns Ok(Some(v)).
C1_ReadYourWrites ==
    (/\ Returned("get")
     /\ Declared(call.col)
     /\ call.key \in Keys
     /\ lastWrite[call.col][call.key].kind = "Insert")
        => ret = Ok(Some(lastWrite[call.col][call.key].value))

\* C1 witness: a get returned the value of an Insert that overwrote an
\* earlier Insert of the same key.
C1_Witness ==
    /\ Returned("get")
    /\ Declared(call.col)
    /\ call.key \in Keys
    /\ lastWrite[call.col][call.key] = [kind |-> "Insert", value |-> 2, inserted |-> TRUE]
    /\ ret = Ok(Some(2))

\* C2: after k was inserted into a declared column c and then deleted, with
\* no later insert, get(c, k) returns Ok(None).
C2_DeleteAndGet ==
    (/\ Returned("get")
     /\ Declared(call.col)
     /\ call.key \in Keys
     /\ lastWrite[call.col][call.key].kind = "Delete"
     /\ lastWrite[call.col][call.key].inserted)
        => ret = Ok(None)

\* C2 witness: a get of a key that was inserted and then deleted returned.
C2_Witness ==
    /\ Returned("get")
    /\ Declared(call.col)
    /\ call.key \in Keys
    /\ lastWrite[call.col][call.key].kind = "Delete"
    /\ lastWrite[call.col][call.key].inserted
    /\ ret = Ok(None)

\* C5: get on a column that was not declared at construction returns the
\* error, for every key and in every state, and changes nothing; get on a
\* declared column never returns an error.
C5_GetUnknownColumn ==
    [][(pc' = "done" /\ call'.op = "get")
         => /\ ret'.ok <=> call'.col < num_cols
            /\ columns' = columns
            /\ num_cols' = num_cols]_vars

\* C5 witness: get(0, key) failed on a store created with 0 columns, after
\* operations naming column 0 had been submitted.
C5_Witness ==
    /\ Returned("get")
    /\ ~ret.ok
    /\ num_cols = 0
    /\ call.col = 0
    /\ nops > 0

\* C6: for an undeclared column get_by_prefix returns none and iter and
\* iter_from_prefix the empty sequence, none of them fails, none of them
\* changes the store.
C6_UnknownColumnIsNoData ==
    [][(/\ pc' = "done"
        /\ call'.op \in {"get_by_prefix", "iter", "iter_from_prefix"}
        /\ ~(call'.col < num_cols))
         => /\ ret' = IF call'.op = "get_by_prefix" THEN Ok(None) ELSE Items(<<>>)
            /\ ret'.ok
            /\ columns' = columns
            /\ num_cols' = num_cols]_vars

\* C6 witness: iter_from_prefix with the empty prefix returned nothing for an
\* undeclared column while a declared column holds data.
C6_Witness ==
    /\ Returned("iter_from_prefix")
    /\ call.col >= num_cols
    /\ call.key = <<>>
    /\ ret = Items(<<>>)
    /\ \E c \in DOMAIN columns : columns[c] # <<>>

\* The content of (c, k) after ops: decided by the last operation of ops
\* naming (c, k), and before when there is none.
ExpectedAfter(before, ops, c, k) ==
    LET at == {i \in 1..Len(ops) : ops[i].col = c /\ ops[i].key = k}
    IN  IF at = {} THEN before
        ELSE LET i == CHOOSE x \in at : \A y \in at : y <= x
             IN  IF ops[i].kind = "Insert" THEN Some(ops[i].value) ELSE None

\* C7: a transaction with operations for undeclared columns does not fail,
\* creates no column, and changes the declared columns exactly as its
\* operations on declared columns say, whether they come before or after the
\* skipped ones.
C7_UndeclaredSkipped ==
    [][(pc' = "done" /\ call'.op \in {"write_buffered", "write"})
         => /\ ret'.ok
            /\ DOMAIN columns' = 0..(num_cols - 1)
            /\ \A c \in 0..(num_cols - 1) :
                 /\ MapKeys(columns'[c]) \subseteq Keys
                 /\ \A k \in Keys :
                      MapGet(columns'[c], k)
                        = ExpectedAfter(MapGet(columns[c], k), call'.tx, c, k)]_vars

\* C7 witness: a transaction whose first operation names an undeclared
\* column and whose second, an insert into a declared column, is stored.
C7_Witness ==
    /\ Returned("write_buffered")
    /\ Len(call.tx) = 2
    /\ call.tx[1].col >= num_cols
    /\ call.tx[2].col < num_cols /\ call.tx[2].kind = "Insert"
    /\ MapGet(columns[call.tx[2].col], call.tx[2].key) = Some(call.tx[2].value)

\* C8: iter on a declared column yields every stored pair exactly once, in
\* strictly ascending byte order of the keys, whatever the order of insertion.
C8_IterSorted ==
    (Returned("iter") /\ Declared(call.col))
        => /\ Ascending(ret.items)
           /\ Range(ret.items) = Written(call.col)

\* C8 witness: iter returned two pairs.
C8_Witness ==
    /\ Returned("iter")
    /\ Declared(call.col)
    /\ Len(ret.items) = 2

\* C9: iter_from_prefix on a declared column yields exactly the pairs whose
\* key starts with the prefix, each once and in ascending order; with the
\* empty prefix that is what iter yields.
C9_IterFromPrefix ==
    (Returned("iter_from_prefix") /\ Declared(call.col))
        => /\ Ascending(ret.items)
           /\ Range(ret.items) = WrittenWithPrefix(call.col, call.key)
           /\ call.key = <<>> => ret.items = iter(columns, call.col)

\* C9 witness: with "0" and "ab" stored, the prefix "a" yields the pair of
\* "ab" alone ("0" sorts before the prefix, "ab" extends it).
C9_Witness ==
    /\ Returned("iter_from_prefix")
    /\ Declared(call.col)
    /\ MapKeys(columns[call.col]) = {<<48>>, <<97, 98>>}
    /\ call.key = <<97>>
    /\ Len(ret.items) = 1
    /\ ret.items[1][1] = <<97, 98>>

\* C10: get_by_prefix on a declared column returns the value under the
\* smallest key that starts with the prefix, none when there is no such key,
\* and that is the value of the first pair of iter_from_prefix.
C10_GetByPrefix ==
    (Returned("get_by_prefix") /\ Declared(call.col))
        => LET hits == WrittenWithPrefix(call.col, call.key)
               its == iter_from_prefix(columns, call.col, call.key)
           IN  /\ ret.ok
               /\ hits = {} => ret.val = None
               /\ hits # {} =>
                    \E e \in hits :
                        /\ \A f \in hits : f = e \/ Lex(e[1], f[1])
                        /\ ret.val = Some(e[2])
               /\ ret.val = IF its = <<>> THEN None ELSE Some(its[1][2])

\* C10 witness: two stored keys start with the prefix and hold different
\* values; the value of the smaller one was returned.
C10_Witness ==
    /\ Returned("get_by_prefix")
    /\ Declared(call.col)
    /\ call.key = <<97>>
    /\ columns[call.col] = <<<<<<97>>, 1>>, <<<<97, 98>>, 2>>>>
    /\ ret.val = Some(1)

\* C11: restore fails for every location and in every state, and leaves the
\* declared columns and their content as they were.
C11_RestoreFails ==
    [][(pc' = "done" /\ call'.op = "restore")
         => /\ ~ret'.ok
            /\ columns' = columns
            /\ num_cols' = num_cols]_vars

\* C11 witness: restore of the empty location failed on a store that holds
\* data.
C11_Witness ==
    /\ Returned("restore")
    /\ call.key = <<>>
    /\ ~ret.ok
    /\ \E c \in DOMAIN columns : columns[c] # <<>>

\* Every read operation, with every argument, gives the same result on the
\* stores a and b.
ReadsAgree(a, b) ==
    \A col \in ColIds, p \in Prefixes :
        /\ get(a, col, p) = get(b, col, p)
        /\ get_by_prefix(a, col, p) = get_by_prefix(b, col, p)
        /\ iter(a, col) = iter(b, col)
        /\ iter_from_prefix(a, col, p) = iter_from_prefix(b, col, p)

\* C12: write(t) returns success and leaves the store as write_buffered(t)
\* leaves it; flush returns success, changes nothing, and every read gives the
\* same result before and after it.
C12_WriteIsWriteBufferedThenFlush ==
    [][/\ (pc' = "done" /\ call'.op = "write")
            => /\ ret' = Ok(None)
               /\ columns' = write_buffered(columns, call'.tx)
       /\ (pc' = "done" /\ call'.op = "flush")
            => /\ ret' = Ok(None)
               /\ columns' = columns
               /\ ReadsAgree(columns, columns')]_vars

\* C12 witness: write of a transaction of two operations returned success and
\* both of its pairs are stored.
C12_Witness ==
    /\ Returned("write")
    /\ ret = Ok(None)
    /\ Len(call.tx) = 2
    /\ \E c \in DOMAIN columns : Len(columns[c]) = 2

\* The columns named by the operations of a transaction.
ColumnsOf(ops) == {ops[i].col : i \in 1..Len(ops)}

\* Every read operation on column d, with every argument, gives the same
\* result on the stores a and b.
ReadsAgreeOn(d, a, b) ==
    \A p \in Prefixes :
        /\ get(a, d, p) = get(b, d, p)
        /\ get_by_prefix(a, d, p) = get_by_prefix(b, d, p)
        /\ iter(a, d) = iter(b, d)
        /\ iter_from_prefix(a, d, p) = iter_from_prefix(b, d, p)

\* C13: a write changes only the columns its operations name: every other
\* declared column holds the same pairs after it, and get, get_by_prefix, iter
\* and iter_from_prefix on it give the same results, also for a key that the
\* write inserts or deletes in another column.
C13_ColumnIsolation ==
    [][(pc' = "done" /\ call'.op \in {"write_buffered", "write"})
         => \A d \in 0..(num_cols - 1) :
                d \notin ColumnsOf(call'.tx)
                    => /\ columns'[d] = columns[d]
                       /\ ReadsAgreeOn(d, columns, columns')]_vars

\* C13 witness: a key stored in one column was inserted with another value
\* into another column, and the first column still holds its own value.
C13_Witness ==
    /\ Returned("write_buffered")
    /\ Len(call.tx) = 1
    /\ call.tx[1].kind = "Insert"
    /\ Declared(call.tx[1].col)
    /\ MapGet(columns[call.tx[1].col], call.tx[1].key) = Some(call.tx[1].value)
    /\ \E d \in DOMAIN columns :
          /\ d # call.tx[1].col
          /\ MapGet(columns[d], call.tx[1].key) # None
          /\ MapGet(columns[d], call.tx[1].key) # Some(call.tx[1].value)

\* C14: a column argument exists that is supported whatever number of column
\* families the store was created with: get serves it for every key, instead
\* of rejecting it as a missing column. The methods take col: u32, so the
\* arguments to choose from are the column indexes; the trait documentation
\* names the absent index, which is not among them.
C14_NoneColumnSupported ==
    \E col \in ColIds : \A key \in Prefixes : get(columns, col, key).ok

\* A store as the claims see it: per declared column, what each key maps to.
View(cols) == [c \in DOMAIN cols |-> [k \in Keys |-> MapGet(cols[c], k)]]

\* The effect of one operation on a view: Insert sets the key's value, Delete
\* makes the key absent, an operation on an undeclared column does nothing.
Effect(view, op) ==
    IF op.col \notin DOMAIN view
    THEN view
    ELSE [view EXCEPT ![op.col][op.key] =
             IF op.kind = "Insert" THEN Some(op.value) ELSE None]

\* The effects of ops[i], ops[i + 1], ... applied one after the other.
RECURSIVE FoldFrom(_, _, _)
FoldFrom(view, ops, i) ==
    IF i > Len(ops)
    THEN view
    ELSE FoldFrom(Effect(view, ops[i]), ops, i + 1)

\* C15: the store after write_buffered is the fold, first operation to last,
\* of the operations' effects over the store before; so the content of every
\* (column, key) the transaction names is decided by the last operation on it.
C15_AppliedInOrder ==
    [][(pc' = "done" /\ call'.op \in {"write_buffered", "write"})
         => /\ View(columns') = FoldFrom(View(columns), call'.tx, 1)
            /\ \A c \in DOMAIN columns' : MapKeys(columns'[c]) \subseteq Keys
            /\ \A i \in 1..Len(call'.tx) :
                 call'.tx[i].col \in DOMAIN columns'
                   => MapGet(columns'[call'.tx[i].col], call'.tx[i].key)
                        = ExpectedAfter(None, call'.tx, call'.tx[i].col,
                                        call'.tx[i].key)]_vars

\* C15 witness: the transaction built by put(c, k, v) and then delete(c, k)
\* was written, and k is absent from c.
C15_Witness ==
    /\ Returned("write_buffered")
    /\ \E c \in DOMAIN columns, k \in Keys, v \in Value :
          /\ call.tx = delete(put(new, c, k, v), c, k)
          /\ MapGet(columns[c], k) = None

\* C16: the columns of a store created by create(n) are 0..n-1 in every
\* state, whatever was called since and whatever columns the transactions
\* named, and all of them are empty as long as no operation was submitted.
C16_ColumnSetFixed ==
    /\ DOMAIN columns = 0..(num_cols - 1)
    /\ nops = 0 => \A c \in 0..(num_cols - 1) : columns[c] = EmptyMap

\* C16 witness: on a store with a declared column, a transaction that inserts
\* into an undeclared column and deletes from a declared one, which is empty,
\* has been written.
C16_Witness ==
    /\ Returned("write_buffered")
    /\ num_cols > 0
    /\ \E i \in 1..Len(call.tx) :
          call.tx[i].kind = "Insert" /\ call.tx[i].col >= num_cols
    /\ \E i \in 1..Len(call.tx) :
          /\ call.tx[i].kind = "Delete"
          /\ call.tx[i].col < num_cols
          /\ columns[call.tx[i].col] = EmptyMap

\* ------------------------------- SpecTwice: a transaction written twice

\* The store of one column that the transactions are written to: any map of
\* Keys to Value, as earlier writes can have left it. contents gives, per key,
\* its value, or 0 for an absent key.
RECURSIVE MapFrom(_, _)
MapFrom(contents, ks) ==
    IF ks = {}
    THEN EmptyMap
    ELSE LET k == CHOOSE x \in ks : TRUE
         IN  IF contents[k] = 0
             THEN MapFrom(contents, ks \ {k})
             ELSE MapInsert(MapFrom(contents, ks \ {k}), k, contents[k])

Maps == {MapFrom(contents, Keys) : contents \in [Keys -> {0} \cup Value]}

\* The operations name the declared column 0 and the undeclared column MaxCols.
TwiceOp == {o \in DBOp : o.col \in {0, MaxCols}}
TwiceTransaction(n) == UNION {[1..l -> TwiceOp] : l \in 0..n}

\* create(1), followed by the writes that leave the map m in column 0, each
\* key of m inserted once.
InitTwice ==
    /\ num_cols = 1
    /\ columns \in {[idx \in {0} |-> m] : m \in Maps}
    /\ pc = "idle"
    /\ call = NoCall
    /\ ret = Ok(None)
    /\ nops = 0
    /\ lastWrite = [c \in {0} |-> [k \in Keys |->
                       IF MapGet(columns[0], k) = None
                       THEN NoWrite
                       ELSE [kind |-> "Insert", value |-> MapGet(columns[0], k)[1],
                             inserted |-> FALSE]]]
    /\ lock = Unlocked
    /\ tpc = [t \in Threads |-> "idle"]
    /\ targ = [t \in Threads |-> NoCall]
    /\ ti = [t \in Threads |-> 0]
    /\ tret = [t \in Threads |-> Ok(None)]
    /\ it = [t \in Threads |-> NoIter]
    /\ niters = 0
    /\ serial = columns

\* write_buffered called once more with a clone of the transaction that the
\* caller has just written.
WriteAgain ==
    /\ pc = "done"
    /\ call.op \in {"write_buffered", "write"}
    /\ columns' = write_buffered(columns, call.tx)
    /\ lastWrite' = Record(lastWrite, call.tx)
    /\ call' = [Call("write_buffered", 0, <<>>, call.tx) EXCEPT !.again = TRUE]
    /\ ret' = Ok(None)
    /\ UNCHANGED <<pc, num_cols, nops, concVars>>

NextTwice ==
    \/ \E transaction \in TwiceTransaction(MaxOps - nops) :
           WriteBuffered(transaction)
    \/ WriteAgain
    \/ Drop

SpecTwice == InitTwice /\ [][NextTwice]_vars

\* C19: writing a transaction a second time, right after it was written,
\* leaves every column as the first write left it, whatever the store held
\* before the first write.
C19_WriteTwice ==
    [][(pc' = "done" /\ call'.again) => columns' = columns]_vars

\* C19 witness: a transaction that deletes a key and then inserts it, in a
\* declared column that holds other keys, was written twice.
C19_Witness ==
    /\ pc = "done"
    /\ call.again
    /\ \E c \in DOMAIN columns, k \in Keys, v \in Value :
          /\ call.tx = put(delete(new, c, k), c, k, v)
          /\ MapGet(columns[c], k) = Some(v)
          /\ Len(columns[c]) = 3

\* ------------------------------------------------ SpecConc: several threads

\* The store is created with MaxCols columns and shared by the threads.
InitConc ==
    /\ Init
    /\ num_cols = MaxCols

IsRead(o) == o \in {"get", "get_by_prefix", "iter", "iter_from_prefix"}
IsWrite(o) == o = "write_buffered"

\* A thread calls a method that starts by taking the lock.
Invoke(t, c) ==
    /\ tpc[t] = "idle"
    /\ tpc' = [tpc EXCEPT ![t] = "wait"]
    /\ targ' = [targ EXCEPT ![t] = c]
    /\ UNCHANGED <<columns, num_cols, seqVars, lock, ti, tret, it, serial>>

InvokeGet(t, col, key) ==
    /\ Invoke(t, Call("get", col, key, <<>>))
    /\ UNCHANGED <<nops, niters>>

InvokeGetByPrefix(t, col, prefix) ==
    /\ Invoke(t, Call("get_by_prefix", col, prefix, <<>>))
    /\ UNCHANGED <<nops, niters>>

InvokeIter(t, col) ==
    /\ niters < MaxIters
    /\ Invoke(t, Call("iter", col, <<>>, <<>>))
    /\ niters' = niters + 1
    /\ UNCHANGED nops

InvokeIterFromPrefix(t, col, prefix) ==
    /\ niters < MaxIters
    /\ Invoke(t, Call("iter_from_prefix", col, prefix, <<>>))
    /\ niters' = niters + 1
    /\ UNCHANGED nops

InvokeWriteBuffered(t, transaction) ==
    /\ nops + Len(transaction) <= MaxOps
    /\ Invoke(t, Call("write_buffered", 0, <<>>, transaction))
    /\ nops' = nops + Len(transaction)
    /\ UNCHANGED niters

\* self.columns.read() returns.
LockRead(t) ==
    /\ tpc[t] = "wait"
    /\ IsRead(targ[t].op)
    /\ CanRead(lock)
    /\ lock' = [lock EXCEPT !.readers = @ \cup {t}]
    /\ tpc' = [tpc EXCEPT ![t] = "locked"]
    /\ UNCHANGED <<columns, num_cols, nops, seqVars, targ, ti, tret, it, niters, serial>>

\* self.columns.write() returns.
LockWrite(t) ==
    /\ tpc[t] = "wait"
    /\ IsWrite(targ[t].op)
    /\ CanWrite(lock)
    /\ lock' = [lock EXCEPT !.writer = t]
    /\ tpc' = [tpc EXCEPT ![t] = "locked"]
    /\ ti' = [ti EXCEPT ![t] = 1]
    /\ serial' = write_buffered(serial, targ[t].tx)
    /\ UNCHANGED <<columns, num_cols, nops, seqVars, targ, tret, it, niters>>

\* The end of a method that holds the read guard: the guard is dropped and
\* the method returns r.
ReadReturns(t, r) ==
    /\ tpc[t] = "locked"
    /\ lock' = [lock EXCEPT !.readers = @ \ {t}]
    /\ tpc' = [tpc EXCEPT ![t] = "done"]
    /\ tret' = [tret EXCEPT ![t] = r]
    /\ UNCHANGED <<columns, num_cols, nops, seqVars, targ, ti, niters, serial>>

\* Mutant of GetLocked: the error path returns without dropping the guard.
GetLockedLeaksOnError(t) ==
    /\ targ[t].op = "get"
    /\ IF get(columns, targ[t].col, targ[t].key).ok
       THEN ReadReturns(t, get(columns, targ[t].col, targ[t].key))
       ELSE /\ tpc[t] = "locked"
            /\ tpc' = [tpc EXCEPT ![t] = "done"]
            /\ tret' = [tret EXCEPT ![t] = Err]
            /\ UNCHANGED <<columns, num_cols, nops, seqVars, lock, targ, ti,
                           niters, serial>>
    /\ UNCHANGED it

\* The body of get, under the read lock.
GetLocked(t) ==
    /\ targ[t].op = "get"
    /\ ReadReturns(t, get(columns, targ[t].col, targ[t].key))
    /\ UNCHANGED it

\* The body of get_by_prefix, under the read lock.
GetByPrefixLocked(t) ==
    /\ targ[t].op = "get_by_prefix"
    /\ ReadReturns(t, get_by_prefix(columns, targ[t].col, targ[t].key))
    /\ UNCHANGED it

\* Mutant of IterLocked: the iterator borrows the map through the read guard
\* and keeps the guard.
IterLockedKeepsGuard(t) ==
    /\ targ[t].op \in {"iter", "iter_from_prefix"}
    /\ tpc[t] = "locked"
    /\ tpc' = [tpc EXCEPT ![t] = "done"]
    /\ tret' = [tret EXCEPT ![t] = Ok(None)]
    /\ it' = [it EXCEPT ![t] =
                [live |-> TRUE,
                 col |-> targ[t].col,
                 prefix |-> targ[t].key,
                 map |-> iter(columns, targ[t].col),
                 pos |-> 0,
                 out |-> <<>>,
                 atCall |-> iter_from_prefix(columns, targ[t].col, targ[t].key)]]
    /\ UNCHANGED <<columns, num_cols, nops, seqVars, lock, targ, ti, niters, serial>>

\* The body of iter and of iter_from_prefix, under the read lock: the map is
\* cloned into the iterator, which the caller gets once the guard is dropped.
\* The filter of iter_from_prefix runs when the iterator is advanced; iter has
\* no filter, which is the filter of the empty prefix.
IterLocked(t) ==
    /\ targ[t].op \in {"iter", "iter_from_prefix"}
    /\ ReadReturns(t, Ok(None))
    /\ it' = [it EXCEPT ![t] =
                [live |-> TRUE,
                 col |-> targ[t].col,
                 prefix |-> targ[t].key,
                 map |-> iter(columns, targ[t].col),
                 pos |-> 0,
                 out |-> <<>>,
                 atCall |-> IF targ[t].col < num_cols
                            THEN SelectSeq(columns[targ[t].col],
                                           LAMBDA e : IsPrefixOf(targ[t].key, e[1]))
                            ELSE <<>>]]

\* One turn of write_buffered's loop, under the write lock.
WriteLoop(t) ==
    /\ tpc[t] = "locked"
    /\ IsWrite(targ[t].op)
    /\ ti[t] <= Len(targ[t].tx)
    /\ columns' = ApplyOp(columns, targ[t].tx[ti[t]])
    /\ ti' = [ti EXCEPT ![t] = @ + 1]
    /\ UNCHANGED <<num_cols, nops, seqVars, lock, tpc, targ, tret, it, niters, serial>>

\* The loop is over: the write guard is dropped and write_buffered returns.
WriteUnlock(t) ==
    /\ tpc[t] = "locked"
    /\ IsWrite(targ[t].op)
    /\ ti[t] > Len(targ[t].tx)
    /\ lock' = [lock EXCEPT !.writer = 0]
    /\ tpc' = [tpc EXCEPT ![t] = "done"]
    /\ ti' = [ti EXCEPT ![t] = 0]
    /\ tret' = [tret EXCEPT ![t] = Ok(None)]
    /\ UNCHANGED <<columns, num_cols, nops, seqVars, targ, it, niters, serial>>

\* Iterator::next on the iterator the thread holds: the next pair of its map
\* that passes the filter is yielded; the iterator is exhausted when there is
\* none.
IterNext(t) ==
    /\ tpc[t] = "idle"
    /\ it[t].live
    /\ LET src == IterSource(columns, it[t])
           hits == {j \in (it[t].pos + 1)..Len(src) :
                       StartsWith(src[j][1], it[t].prefix)}
       IN  /\ it[t].pos < Len(src)
           /\ IF hits = {}
              THEN it' = [it EXCEPT ![t].pos = Len(src)]
              ELSE LET j == CHOOSE x \in hits : \A y \in hits : x <= y
                   IN  it' = [it EXCEPT ![t].pos = j,
                                        ![t].out = Append(@, src[j])]
    /\ UNCHANGED <<columns, num_cols, nops, seqVars, lock, tpc, targ, ti, tret, niters, serial>>

\* flush and restore take no lock. KeyValueDB::write is write_buffered
\* followed by flush: a thread's InvokeWriteBuffered .. WriteUnlock, DropConc
\* and FlushConc.
FlushConc(t) ==
    /\ tpc[t] = "idle"
    /\ tpc' = [tpc EXCEPT ![t] = "done"]
    /\ targ' = [targ EXCEPT ![t] = Call("flush", 0, <<>>, <<>>)]
    /\ tret' = [tret EXCEPT ![t] = flush(columns)]
    /\ UNCHANGED <<columns, num_cols, nops, seqVars, lock, ti, it, niters, serial>>

RestoreConc(t, new_db) ==
    /\ tpc[t] = "idle"
    /\ tpc' = [tpc EXCEPT ![t] = "done"]
    /\ targ' = [targ EXCEPT ![t] = Call("restore", 0, new_db, <<>>)]
    /\ tret' = [tret EXCEPT ![t] = restore(columns, new_db)]
    /\ UNCHANGED <<columns, num_cols, nops, seqVars, lock, ti, it, niters, serial>>

\* The thread drops the result and is ready for its next call.
DropConc(t) ==
    /\ tpc[t] = "done"
    /\ tpc' = [tpc EXCEPT ![t] = "idle"]
    /\ targ' = [targ EXCEPT ![t] = NoCall]
    /\ tret' = [tret EXCEPT ![t] = Ok(None)]
    /\ UNCHANGED <<columns, num_cols, nops, seqVars, lock, ti, it, niters, serial>>

NextConc ==
    \E t \in Threads :
        \/ \E col \in ConcColIds, key \in ConcKeys : InvokeGet(t, col, key)
        \/ \E col \in ConcColIds, prefix \in ConcPrefixes : InvokeGetByPrefix(t, col, prefix)
        \/ \E col \in ConcColIds : InvokeIter(t, col)
        \/ \E col \in ConcColIds, prefix \in ConcPrefixes : InvokeIterFromPrefix(t, col, prefix)
        \/ \E transaction \in ConcTransaction(MaxOps - nops) :
               InvokeWriteBuffered(t, transaction)
        \/ LockRead(t)
        \/ LockWrite(t)
        \/ GetLocked(t)
        \/ GetByPrefixLocked(t)
        \/ IterLocked(t)
        \/ WriteLoop(t)
        \/ WriteUnlock(t)
        \/ IterNext(t)
        \/ FlushConc(t)
        \/ \E new_db \in Paths : RestoreConc(t, new_db)
        \/ DropConc(t)

SpecConc == InitConc /\ [][NextConc]_vars

\* ------------------------------------- SpecLive: threads under a fair lock

\* The threads insert the key "a" into the declared columns 0 and 1, and read
\* it from column 0 and from the undeclared column MaxCols.
LiveKeys == {<<97>>}
LivePrefixes == {<<>>}
LiveOp == {o \in DBOp : o.key \in LiveKeys /\ o.col \in {0, 1} /\ o.value = 1}
LiveTransaction(n) == UNION {[1..l -> LiveOp] : l \in 0..n}

NextLive ==
    \E t \in Threads :
        \/ \E col \in ConcColIds, key \in LiveKeys : InvokeGet(t, col, key)
        \/ \E col \in ConcColIds, prefix \in LiveKeys : InvokeGetByPrefix(t, col, prefix)
        \/ \E col \in ConcColIds : InvokeIter(t, col)
        \/ \E col \in ConcColIds, prefix \in LivePrefixes : InvokeIterFromPrefix(t, col, prefix)
        \/ \E transaction \in LiveTransaction(MaxOps - nops) :
               InvokeWriteBuffered(t, transaction)
        \/ LockRead(t)
        \/ LockWrite(t)
        \/ GetLocked(t)
        \/ GetByPrefixLocked(t)
        \/ IterLocked(t)
        \/ WriteLoop(t)
        \/ WriteUnlock(t)
        \/ IterNext(t)
        \/ FlushConc(t)
        \/ \E new_db \in {<<>>} : RestoreConc(t, new_db)
        \/ DropConc(t)

\* self.columns.read() or self.columns.write() returns, whichever the thread
\* waits in.
Lock(t) == LockRead(t) \/ LockWrite(t)

\* A step of the thread that holds the lock: the rest of its method.
Locked(t) ==
    \/ GetLocked(t)
    \/ GetByPrefixLocked(t)
    \/ IterLocked(t)
    \/ WriteLoop(t)
    \/ WriteUnlock(t)

\* A thread that holds the lock runs on: the code between taking and dropping
\* the guard has no blocking call. The lock is granted fairly: a thread that
\* waits for it gets it if it is free again and again. The callers are free to
\* stop calling.
Fairness ==
    \A t \in Threads :
        /\ SF_vars(Lock(t))
        /\ WF_vars(Locked(t))

SpecLive == InitConc /\ [][NextLive]_vars /\ Fairness

\* --------------------------------------------------- claims under SpecConc

\* C3: a transaction is atomic with respect to readers: whenever a thread is in
\* the locked part of get, get_by_prefix, iter or iter_from_prefix, the store
\* it reads is the result of whole transactions applied one after the other,
\* never of a part of one.
C3_ReadersSeeWholeTransactions ==
    \A t \in Threads :
        (tpc[t] = "locked" /\ IsRead(targ[t].op)) => columns = serial

\* C3 witness: a thread is in the locked part of get after another thread's
\* transaction of two operations has stored two pairs.
C3_Witness ==
    \E t, u \in Threads :
        /\ tpc[t] = "locked" /\ targ[t].op = "get"
        /\ tpc[u] = "done" /\ targ[u].op = "write_buffered"
        /\ Len(targ[u].tx) = 2
        /\ Len(columns[0]) = 2

Exhausted(i) == i.pos >= Len(IterSource(columns, i))

\* C4: what an iterator yields is the content of the column (restricted to the
\* prefix) at the moment of the call: at any time the pairs yielded so far are
\* the first pairs of that content, all of it once the iterator is exhausted,
\* whatever was written since by any thread.
C4_IteratorSnapshot ==
    \A t \in Threads :
        it[t].live =>
            /\ Len(it[t].out) <= Len(it[t].atCall)
            /\ it[t].out = SubSeq(it[t].atCall, 1, Len(it[t].out))
            /\ Exhausted(it[t]) => it[t].out = it[t].atCall

\* C4 witness: an iterator has yielded the pair the column held at the call,
\* and the column holds something else by now.
C4_Witness ==
    \E t \in Threads :
        /\ it[t].live
        /\ it[t].col = 0
        /\ it[t].atCall # <<>>
        /\ it[t].out = it[t].atCall
        /\ columns[0] # it[t].map

\* --------------------------------------------------- claims under SpecLive

\* The threads inside write_buffered, between write() and the end of the loop,
\* and those inside the locked part of a read operation.
Writing == {t \in Threads : tpc[t] = "locked" /\ IsWrite(targ[t].op)}
Reading == {t \in Threads : tpc[t] = "locked" /\ IsRead(targ[t].op)}

\* C17: at most one thread is inside write_buffered, and then no thread is
\* inside the locked part of a read; a thread that waits in write_buffered is
\* let in exactly when no thread is inside a write or a read, whatever columns
\* the transactions name; a thread that waits in a read is let in exactly when
\* no thread is inside a write, so readers do not exclude each other.
C17_LockDiscipline ==
    /\ Cardinality(Writing) <= 1
    /\ Writing # {} => Reading = {}
    /\ \A u \in Threads :
          tpc[u] = "wait" =>
              IF IsWrite(targ[u].op)
              THEN ENABLED LockWrite(u) <=> (Writing = {} /\ Reading = {})
              ELSE ENABLED LockRead(u) <=> Writing = {}

\* C17 witness: both threads are inside the locked part of a read while a
\* column holds data.
C17_Witness ==
    /\ Reading = Threads
    /\ \E c \in DOMAIN columns : columns[c] # EmptyMap

\* C18: the lock is held by threads inside a call only, never on behalf of
\* an iterator a caller holds; so a thread that waits in write_buffered while
\* no thread is inside a call gets the lock, also when it or another waiting
\* thread holds an iterator that is not exhausted.
C18_IteratorHoldsNoLock ==
    \A t \in Threads :
        /\ (it[t].live /\ tpc[t] # "locked")
              => t \notin lock.readers /\ lock.writer # t
        /\ (/\ tpc[t] = "wait"
            /\ IsWrite(targ[t].op)
            /\ \A u \in Threads : tpc[u] # "locked")
              => ENABLED LockWrite(t)

\* C18 witness: a thread that holds an iterator with pairs left to yield is
\* inside write_buffered and has applied an operation.
C18_Witness ==
    \E t \in Threads :
        /\ it[t].live
        /\ it[t].pos < Len(it[t].map)
        /\ tpc[t] = "locked"
        /\ IsWrite(targ[t].op)
        /\ ti[t] > 1

\* A thread is inside a call that takes the lock; the call has returned.
InCall(t) == tpc[t] \in {"wait", "locked"}
HasReturned(t) == tpc[t] = "done"

\* The thread holds the lock, as a reader or as the writer.
Holds(t) == t \in lock.readers \/ lock.writer = t

\* C20: a thread holds the lock only between taking it and the end of the
\* method, on every path: not while it waits for it (it never takes it twice),
\* not after the method has returned, error and unknown-column paths included;
\* and, the lock being granted fairly, every call that takes the lock returns.
C20_EveryCallReturns ==
    /\ [](\A t \in Threads : Holds(t) <=> tpc[t] = "locked")
    /\ \A t \in Threads : InCall(t) ~> HasReturned(t)

\* C20 witness: get on an undeclared column has returned its error, another
\* thread's write_buffered has returned, and the lock is free.
C20_Witness ==
    \E t, u \in Threads :
        /\ HasReturned(t) /\ targ[t].op = "get" /\ ~tret[t].ok
        /\ HasReturned(u) /\ targ[u].op = "write_buffered" /\ Len(targ[u].tx) = MaxOps
        /\ lock = Unlocked

====
